---- MODULE Spec2Model ----
(***************************************************************************)
(* Model of src/snake_evolution.py: the Snake entity (move, grow,          *)
(* set_direction) and the Game session (reset_game, the three spawners,    *)
(* handle_events, update, game_over, high-score load/save).                *)
(*                                                                         *)
(* One step of the model is either one key event processed by              *)
(* Game.handle_events or one call of Game.update (one frame tick).         *)
(* Game.run drains all pending events and then calls update once, so any   *)
(* number of event steps may precede a tick step.  Leaving the loop        *)
(* (pygame.QUIT, K_q in the menu) changes no state of the game: it is a    *)
(* behaviour that stops, which Spec allows at every state, so no fairness  *)
(* is assumed for any step.  Drawing is not modelled.                      *)
(*                                                                         *)
(* Cells are pairs <<x, y>>.  Python dicts are functions whose DOMAIN is   *)
(* the set of keys present.  Python lists are sequences.                   *)
(***************************************************************************)
EXTENDS Integers, Sequences, FiniteSets, TLC

(* ---------------- program constants (lines 13-17, 47, 159-164) --------- *)
WIDTH == 800
HEIGHT == 600
GRID_SIZE == 20
GRID_WIDTH == WIDTH \div GRID_SIZE
GRID_HEIGHT == HEIGHT \div GRID_SIZE
FPS == 60
PowerUpDuration == 300
BaseSpeed == 8
FoodPoints == 10
TimeAttackSeconds == 60
PowerUpSpawnSeconds == 10
ParticleLife == 30
ShieldParticles == 20
PickupParticles == 15

(* ---------------- bounds of the exploration ---------------------------- *)
\* Number of update() calls in a playing mode explored from an initial
\* state that is in play.
MaxTicks == 26
\* Number of update() calls in a playing mode explored in a session that
\* reset_game has started (its snake is 19 cells from the nearest wall).
FreshTicks == 8
\* The cell a spawner draws (line 170) is an input of the step, like the
\* key pressed.  The exploration takes it from the first SpawnDraws cells
\* around the head, counted ring by ring outwards (Offset), and from as
\* many far cells as the spawns of the step need beyond the vacant ones
\* among those; SpawnDraws = 2 * 68 * 69 covers the grid from any head.
SpawnDraws == 4
\* Ticks left on the Time Attack clock in the late-session initial state.
ExpiryLead == 10

Directions == {"UP", "DOWN", "LEFT", "RIGHT"}
PowerUpTypes == {"SPEED_BOOST", "SHIELD", "MULTIPLIER", "GHOST"}
PlayingModes == {"CLASSIC", "TIME_ATTACK", "SURVIVAL"}
Modes == PlayingModes \cup {"MENU", "GAME_OVER"}

\* Direction.value (lines 31-35)
DirValue(d) ==
  CASE d = "UP" -> <<0, -1>>
    [] d = "DOWN" -> <<0, 1>>
    [] d = "LEFT" -> <<-1, 0>>
    [] d = "RIGHT" -> <<1, 0>>

\* PowerUp.__post_init__ colour table (lines 50-57)
PowerUpColor(t) ==
  CASE t = "SPEED_BOOST" -> "BLUE"
    [] t = "SHIELD" -> "YELLOW"
    [] t = "MULTIPLIER" -> "PURPLE"
    [] t = "GHOST" -> "ORANGE"

\* str.lower() on the mode names (line 335)
Lower(m) ==
  CASE m = "CLASSIC" -> "classic"
    [] m = "TIME_ATTACK" -> "time_attack"
    [] m = "SURVIVAL" -> "survival"
    [] m = "MENU" -> "menu"
    [] m = "GAME_OVER" -> "game_over"

\* Python's % for a positive modulus: result in 0..n-1 also for negative a.
PyMod(a, n) == ((a % n) + n) % n

Range(s) == {s[i] : i \in 1..Len(s)}
InGrid(c) == c[1] >= 0 /\ c[1] < GRID_WIDTH /\ c[2] >= 0 /\ c[2] < GRID_HEIGHT

\* dict[key] = value
DictPut(d, k, v) == [x \in DOMAIN d \cup {k} |-> IF x = k THEN v ELSE d[x]]
\* del dict[key]
DictDel(d, k) == [x \in DOMAIN d \ {k} |-> d[x]]
\* dict.get(key, default)
DictGet(d, k, default) == IF k \in DOMAIN d THEN d[k] ELSE default
EmptyDict == [x \in {} |-> 0]

(* ======================== Snake (lines 87-141) ========================= *)

\* Snake.reset (lines 91-97)
SnakeResetBody ==
  LET start_x == GRID_WIDTH \div 2
      start_y == GRID_HEIGHT \div 2
  IN << <<start_x, start_y>>, <<start_x - 1, start_y>>, <<start_x - 2, start_y>> >>

\* Mutant of MoveTarget: the wrap-around is forgotten.
MoveTarget_NoWrap(b, d, has_ghost) ==
  <<b[1][1] + DirValue(d)[1], b[1][2] + DirValue(d)[2]>>

\* new_head of Snake.move before the collision tests (lines 103-114);
\* out-of-grid when not has_ghost and the step leaves the grid.
MoveTarget(b, d, has_ghost) ==
  LET raw == <<b[1][1] + DirValue(d)[1], b[1][2] + DirValue(d)[2]>>
  IN IF has_ghost THEN <<PyMod(raw[1], GRID_WIDTH), PyMod(raw[2], GRID_HEIGHT)>>
     ELSE raw

\* The wall test of Snake.move (lines 108-111).
WallBlocked(b, d, has_ghost) ==
  ~has_ghost /\ ~InGrid(MoveTarget(b, d, has_ghost))

\* Mutant of SelfBlocked: only the neck is tested.
SelfBlocked_NeckOnly(b, d, has_ghost) ==
  Len(b) > 1 /\ MoveTarget(b, d, has_ghost) = b[2]

\* The self-collision test of Snake.move (lines 116-118).
SelfBlocked(b, d, has_ghost) ==
  MoveTarget(b, d, has_ghost) \in Range(Tail(b))

\* Mutant of SnakeMove: a blocked move still drops the tail.
SnakeMove_BlockedPops(b, d, gp, has_ghost) ==
  IF WallBlocked(b, d, has_ghost) \/ SelfBlocked(b, d, has_ghost)
  THEN [ok |-> FALSE, body |-> SubSeq(b, 1, Len(b) - 1), grow_pending |-> gp]
  ELSE LET ins == <<MoveTarget(b, d, has_ghost)>> \o b
       IN IF gp > 0
          THEN [ok |-> TRUE, body |-> ins, grow_pending |-> gp - 1]
          ELSE [ok |-> TRUE, body |-> SubSeq(ins, 1, Len(ins) - 1), grow_pending |-> gp]

\* Mutant of SnakeMove: the tail is never popped.
SnakeMove_NoPop(b, d, gp, has_ghost) ==
  IF WallBlocked(b, d, has_ghost) \/ SelfBlocked(b, d, has_ghost)
  THEN [ok |-> FALSE, body |-> b, grow_pending |-> gp]
  ELSE [ok |-> TRUE, body |-> <<MoveTarget(b, d, has_ghost)>> \o b,
        grow_pending |-> IF gp > 0 THEN gp - 1 ELSE gp]

\* Snake.move (lines 102-127): the returned flag and the snake's new
\* body and grow_pending.
SnakeMove(b, d, gp, has_ghost) ==
  IF WallBlocked(b, d, has_ghost) \/ SelfBlocked(b, d, has_ghost)
  THEN [ok |-> FALSE, body |-> b, grow_pending |-> gp]
  ELSE LET ins == <<MoveTarget(b, d, has_ghost)>> \o b
       IN IF gp > 0
          THEN [ok |-> TRUE, body |-> ins, grow_pending |-> gp - 1]
          ELSE [ok |-> TRUE, body |-> SubSeq(ins, 1, Len(ins) - 1), grow_pending |-> gp]

\* Snake.set_direction (lines 132-141): the direction after the call.
SetDirection(b, cur, d) ==
  IF Len(b) > 1
  THEN IF <<b[1][1] + DirValue(d)[1], b[1][2] + DirValue(d)[2]>> # b[2]
       THEN d
       ELSE cur
  ELSE d


(* ======================== Game (lines 143-338) ========================= *)

VARIABLES
  mode,                  \* Game.mode
  last_mode,             \* Game.last_mode ("UNSET" until game_over sets it)
  body,                  \* Snake.body
  direction,             \* Snake.direction
  grow_pending,          \* Snake.grow_pending
  active_powerups,       \* Snake.active_powerups: type -> remaining frames
  score,                 \* Game.score
  move_counter,          \* Game.move_counter
  powerups,              \* Game.powerups: list of [type, pos, duration]
  particles,             \* Game.particles, as batches [cell, color, count, life]
  obstacles,             \* Game.obstacles: list of cells
  time_remaining,        \* Game.time_remaining
  powerup_spawn_counter, \* Game.powerup_spawn_counter
  food_pos,              \* Game.food_pos
  high_scores,           \* Game.high_scores
  high_scores_file,      \* high_scores.json: [exists (and readable), table]
  budget                 \* update() calls in a playing mode still explored
                         \* in this session (the exploration bound)

gvars == <<mode, last_mode, body, direction, grow_pending, active_powerups,
           score, move_counter, powerups, particles, obstacles,
           time_remaining, powerup_spawn_counter, food_pos, high_scores>>
vars == <<gvars, high_scores_file, budget>>

\* The Game object (with its Snake) as one record.
Game ==
  [mode |-> mode, last_mode |-> last_mode, body |-> body,
   direction |-> direction, grow_pending |-> grow_pending,
   active_powerups |-> active_powerups, score |-> score,
   move_counter |-> move_counter, powerups |-> powerups,
   particles |-> particles, obstacles |-> obstacles,
   time_remaining |-> time_remaining,
   powerup_spawn_counter |-> powerup_spawn_counter, food_pos |-> food_pos,
   high_scores |-> high_scores, file |-> high_scores_file]

\* The next state's Game object is g.
Commit(g) ==
  /\ mode' = g.mode
  /\ last_mode' = g.last_mode
  /\ body' = g.body
  /\ direction' = g.direction
  /\ grow_pending' = g.grow_pending
  /\ active_powerups' = g.active_powerups
  /\ score' = g.score
  /\ move_counter' = g.move_counter
  /\ powerups' = g.powerups
  /\ particles' = g.particles
  /\ obstacles' = g.obstacles
  /\ time_remaining' = g.time_remaining
  /\ powerup_spawn_counter' = g.powerup_spawn_counter
  /\ food_pos' = g.food_pos
  /\ high_scores' = g.high_scores
  /\ high_scores_file' = g.file

(* ---------------- random positions ------------------------------------- *)
\* The cells random.randint(0, GRID_WIDTH - 1), random.randint(0,
\* GRID_HEIGHT - 1) can land on (line 170).
GridCells == (0..(GRID_WIDTH - 1)) \X (0..(GRID_HEIGHT - 1))

\* The i-th offset around a cell: the ring at distance r holds 4 * r
\* offsets, counted from <<r, 0>> through <<0, r>>, <<-r, 0>> and <<0, -r>>.
Offset(i) ==
  LET r == CHOOSE k \in 1..(GRID_WIDTH + GRID_HEIGHT) :
              2 * k * (k + 1) >= i /\ 2 * (k - 1) * k < i
      j == i - 2 * (r - 1) * r - 1
      t == j % r
  IN CASE j \div r = 0 -> <<r - t, t>>
       [] j \div r = 1 -> <<-t, r - t>>
       [] j \div r = 2 -> <<t - r, -t>>
       [] OTHER -> <<t, t - r>>

NearOffsets == {Offset(i) : i \in 1..SpawnDraws}

\* The cells of the grid at the offsets NearOffsets from the head.
NearCells(head) ==
  {c \in {<<head[1] + o[1], head[2] + o[2]>> : o \in NearOffsets} : InGrid(c)}

\* Six cells away from every snake explored.
FarCell(i) == <<9 + i, GRID_HEIGHT - 5>>

PowerUpCells(g) == {g.powerups[i].pos : i \in 1..Len(g.powerups)}

\* Mutant of spawn_food: the snake's body is not looked at.
spawn_food_OnSnake(g, draws) ==
  draws \ Range(g.obstacles)

\* Game.spawn_food (lines 168-172): the positions the loop can return when
\* the draws land on the cells of draws (GridCells in the program).
spawn_food(g, draws) ==
  draws \ (Range(g.body) \cup Range(g.obstacles))

\* Game.spawn_powerup, the accepted positions (lines 176-180).
spawn_powerup_cells(g, draws) ==
  draws \ (Range(g.body) \cup {g.food_pos} \cup PowerUpCells(g)
             \cup Range(g.obstacles))

\* PowerUp(powerup_type, pos) (lines 43-57)
PowerUp(t, pos) ==
  [type |-> t, pos |-> pos, duration |-> PowerUpDuration, color |-> PowerUpColor(t)]

\* Mutant of spawn_powerup: no limit on the power-ups on the field.
spawn_powerup_NoLimit(g, draws) ==
  {[g EXCEPT !.powerups = Append(@, PowerUp(t, pos))] :
      t \in PowerUpTypes, pos \in spawn_powerup_cells(g, draws)}

\* Game.spawn_powerup (lines 174-183): the Game objects it can leave.
spawn_powerup(g, draws) ==
  IF Len(g.powerups) < 2
  THEN {[g EXCEPT !.powerups = Append(@, PowerUp(t, pos))] :
           t \in PowerUpTypes, pos \in spawn_powerup_cells(g, draws)}
  ELSE {g}

\* Game.spawn_obstacle (lines 185-192): the Game objects it can leave.
spawn_obstacle(g, draws) ==
  {[g EXCEPT !.obstacles = Append(@, pos)] :
      pos \in draws \ (Range(g.body) \cup {g.food_pos} \cup PowerUpCells(g)
                        \cup Range(g.obstacles))}

\* Game.create_particles (lines 194-197): count particles at a cell.
create_particles(g, cell, color, count) ==
  [g EXCEPT !.particles =
     Append(@, [cell |-> cell, color |-> color, count |-> count, life |-> ParticleLife])]

\* Game.save_high_scores (lines 484-489): the write succeeds; or open()
\* fails and the file stays as it was; or open(..., "w") has truncated the
\* file and the write fails, which leaves a file that json.load cannot
\* read: load_high_scores treats it like a missing one (lines 476-482), so
\* it is the file [exists |-> FALSE].  The exception is swallowed each time.
save_high_scores(g) ==
  {[g EXCEPT !.file = [exists |-> TRUE, table |-> g.high_scores]],
   g,
   [g EXCEPT !.file = [exists |-> FALSE, table |-> EmptyDict]]}

\* Game.load_high_scores (lines 475-482)
load_high_scores(file) ==
  IF file.exists
  THEN file.table
  ELSE [k \in {"classic", "time_attack", "survival"} |-> 0]

\* Mutant of game_over: a score equal to the stored best is written too.
game_over_OnTie(g) ==
  LET g1 == [g EXCEPT !.last_mode = g.mode, !.mode = "GAME_OVER"]
      mode_key == Lower(g1.last_mode)
  IN IF g1.score >= DictGet(g1.high_scores, mode_key, 0)
     THEN save_high_scores([g1 EXCEPT !.high_scores = DictPut(@, mode_key, g1.score)])
     ELSE {g1}

\* Game.game_over (lines 330-338): the Game objects it can leave.
game_over(g) ==
  LET g1 == [g EXCEPT !.last_mode = g.mode, !.mode = "GAME_OVER"]
      mode_key == Lower(g1.last_mode)
  IN IF g1.score > DictGet(g1.high_scores, mode_key, 0)
     THEN save_high_scores([g1 EXCEPT !.high_scores = DictPut(@, mode_key, g1.score)])
     ELSE {g1}

\* Mutant of reset_game: the obstacles stay on the field.
reset_game_KeepsObstacles(g, draws) ==
  LET g1 == [g EXCEPT !.body = SnakeResetBody, !.direction = "RIGHT",
                      !.grow_pending = 0, !.active_powerups = EmptyDict,
                      !.score = 0, !.move_counter = 0, !.powerups = <<>>,
                      !.particles = <<>>,
                      !.time_remaining = TimeAttackSeconds * FPS,
                      !.powerup_spawn_counter = 0]
  IN {[g1 EXCEPT !.food_pos = pos] : pos \in spawn_food(g1, draws)}

\* Game.reset_game (lines 155-166): the Game objects it can leave.
reset_game(g, draws) ==
  LET g1 == [g EXCEPT !.body = SnakeResetBody, !.direction = "RIGHT",
                      !.grow_pending = 0, !.active_powerups = EmptyDict,
                      !.score = 0, !.move_counter = 0, !.powerups = <<>>,
                      !.particles = <<>>, !.obstacles = <<>>,
                      !.time_remaining = TimeAttackSeconds * FPS,
                      !.powerup_spawn_counter = 0]
  IN {[g1 EXCEPT !.food_pos = pos] : pos \in spawn_food(g1, draws)}


(* ---------------- Game.update (lines 239-328) -------------------------- *)

\* The stages of update map a Game object to the set of Game objects the
\* stage can leave (more than one where the code draws random numbers or
\* writes the file).
Then(S, F(_)) == UNION {F(x) : x \in S}

Max(a, b) == IF a >= b THEN a ELSE b

RemoveAt(s, i) == SubSeq(s, 1, i - 1) \o SubSeq(s, i + 1, Len(s))

\* list.remove(x): drops the first element equal to x.
ListRemove(s, x) ==
  IF \E i \in 1..Len(s) : s[i] = x
  THEN RemoveAt(s, CHOOSE i \in 1..Len(s) : s[i] = x /\ \A j \in 1..(i - 1) : s[j] # x)
  ELSE s

\* Lines 243-246: drop the dead particles, then age the others.
ParticlesStep(g) ==
  LET alive == SelectSeq(g.particles, LAMBDA p : p.life > 0)
  IN [g EXCEPT !.particles = [i \in 1..Len(alive) |-> [alive[i] EXCEPT !.life = @ - 1]]]

\* Mutant of TimersStep: an entry is deleted one frame late.
TimersStep_Late(g) ==
  LET a == g.active_powerups
      expired == {t \in DOMAIN a : a[t] - 1 < 0}
  IN [g EXCEPT !.active_powerups = [t \in DOMAIN a \ expired |-> a[t] - 1]]

\* Lines 248-258: every active power-up loses one frame; the ones that
\* reach 0 are deleted.
TimersStep(g) ==
  LET a == g.active_powerups
      expired == {t \in DOMAIN a : a[t] - 1 <= 0}
  IN [g EXCEPT !.active_powerups = [t \in DOMAIN a \ expired |-> a[t] - 1]]

\* Mutant of frames_per_move: the length ramp is applied in every mode.
frames_per_move_RampEverywhere(g) ==
  LET base100 == BaseSpeed * 100
      boosted100 == IF "SPEED_BOOST" \in DOMAIN g.active_powerups
                    THEN (base100 * 3) \div 2 ELSE base100
  IN Max(1, (FPS * 100) \div (boosted100 + 5 * Len(g.body)))

\* Lines 260-270: frames_per_move = max(1, int(FPS / current_speed)), with
\* current_speed = base_speed * speed_multiplier (8 * 1.0, never changed),
\* * 1.5 under SPEED_BOOST, + 0.05 * len(body) in CLASSIC.  Computed in
\* hundredths: int() truncates, as \div does on positive numbers.
frames_per_move(g) ==
  LET base100 == BaseSpeed * 100
      boosted100 == IF "SPEED_BOOST" \in DOMAIN g.active_powerups
                    THEN (base100 * 3) \div 2 ELSE base100
      speed100 == IF g.mode = "CLASSIC" THEN boosted100 + 5 * Len(g.body)
                  ELSE boosted100
  IN Max(1, (FPS * 100) \div speed100)

\* Mutant of TimeAttackStep: the game ends one frame late.
TimeAttackStep_Late(g) ==
  IF g.mode = "TIME_ATTACK"
  THEN LET g1 == [g EXCEPT !.time_remaining = @ - 1]
       IN IF g1.time_remaining < 0 THEN game_over(g1) ELSE {g1}
  ELSE {g}

\* Lines 324-328: the Time Attack clock.
TimeAttackStep(g) ==
  IF g.mode = "TIME_ATTACK"
  THEN LET g1 == [g EXCEPT !.time_remaining = @ - 1]
       IN IF g1.time_remaining <= 0 THEN game_over(g1) ELSE {g1}
  ELSE {g}

\* Mutant of ObstacleSpawnStep: spawns up to one obstacle too many.
ObstacleSpawnStep_OneMore(g, draws) ==
  IF g.mode = "SURVIVAL" /\ Len(g.body) % 5 = 0 /\ Len(g.body) > 3
  THEN IF Len(g.obstacles) <= Len(g.body) \div 5 THEN spawn_obstacle(g, draws) ELSE {g}
  ELSE {g}

\* Lines 319-322: Survival obstacles.
ObstacleSpawnStep(g, draws) ==
  IF g.mode = "SURVIVAL" /\ Len(g.body) % 5 = 0 /\ Len(g.body) > 3
  THEN IF Len(g.obstacles) < Len(g.body) \div 5 THEN spawn_obstacle(g, draws) ELSE {g}
  ELSE {g}

\* Lines 313-317: the periodic power-up spawn.
PowerUpSpawnStep(g, draws) ==
  LET g1 == [g EXCEPT !.powerup_spawn_counter = @ + 1]
  IN IF g1.powerup_spawn_counter >= FPS * PowerUpSpawnSeconds
     THEN spawn_powerup([g1 EXCEPT !.powerup_spawn_counter = 0], draws)
     ELSE {g1}

\* Lines 306-311: pick up the power-ups under the head; todo is the copy
\* self.powerups[:] still to visit.
RECURSIVE PickupLoop(_, _)
PickupLoop(g, todo) ==
  IF todo = <<>> THEN g
  ELSE LET powerup == Head(todo)
       IN IF g.body[1] = powerup.pos
          THEN PickupLoop(
                 [create_particles(g, powerup.pos, powerup.color, PickupParticles)
                    EXCEPT !.active_powerups = DictPut(@, powerup.type, powerup.duration),
                           !.powerups = ListRemove(@, powerup)],
                 Tail(todo))
          ELSE PickupLoop(g, Tail(todo))

PickupStep(g) == PickupLoop(g, g.powerups)

\* Mutant of FoodStep: the multiplier is not applied.
FoodStep_NoMultiplier(g, draws) ==
  IF g.body[1] = g.food_pos
  THEN LET g1 == create_particles(
                   [g EXCEPT !.grow_pending = @ + 1, !.score = @ + FoodPoints],
                   g.food_pos, "RED", PickupParticles)
       IN {[g1 EXCEPT !.food_pos = pos] : pos \in spawn_food(g1, draws)}
  ELSE {g}

\* Lines 298-304: food under the head.
FoodStep(g, draws) ==
  IF g.body[1] = g.food_pos
  THEN LET multiplier == IF "MULTIPLIER" \in DOMAIN g.active_powerups THEN 2 ELSE 1
           g1 == create_particles(
                   [g EXCEPT !.grow_pending = @ + 1,
                             !.score = @ + FoodPoints * multiplier],
                   g.food_pos, "RED", PickupParticles)
       IN {[g1 EXCEPT !.food_pos = pos] : pos \in spawn_food(g1, draws)}
  ELSE {g}

\* Mutant of ObstacleHitStep: Shield removes the obstacle and stays active.
ObstacleHitStep_KeepsShield(g, has_ghost) ==
  IF g.mode = "SURVIVAL" /\ ~has_ghost /\ g.body[1] \in Range(g.obstacles)
  THEN IF "SHIELD" \in DOMAIN g.active_powerups
       THEN {[returned |-> FALSE,
              g |-> create_particles(
                      [g EXCEPT !.obstacles = SelectSeq(@, LAMBDA o : o # g.body[1])],
                      g.body[1], "YELLOW", ShieldParticles)]}
       ELSE {[returned |-> TRUE, g |-> x] : x \in game_over(g)}
  ELSE {[returned |-> FALSE, g |-> g]}

\* Mutant of ObstacleHitStep: Shield clears every obstacle.
ObstacleHitStep_ClearsAll(g, has_ghost) ==
  IF g.mode = "SURVIVAL" /\ ~has_ghost /\ g.body[1] \in Range(g.obstacles)
  THEN IF "SHIELD" \in DOMAIN g.active_powerups
       THEN {[returned |-> FALSE,
              g |-> create_particles(
                      [g EXCEPT !.active_powerups = DictDel(@, "SHIELD"),
                                !.obstacles = <<>>],
                      g.body[1], "YELLOW", ShieldParticles)]}
       ELSE {[returned |-> TRUE, g |-> x] : x \in game_over(g)}
  ELSE {[returned |-> FALSE, g |-> g]}

\* Mutant of ObstacleHitStep: the test does not look at has_ghost.
ObstacleHitStep_IgnoresGhost(g, has_ghost) ==
  IF g.mode = "SURVIVAL" /\ g.body[1] \in Range(g.obstacles)
  THEN IF "SHIELD" \in DOMAIN g.active_powerups
       THEN {[returned |-> FALSE,
              g |-> create_particles(
                      [g EXCEPT !.active_powerups = DictDel(@, "SHIELD"),
                                !.obstacles = SelectSeq(@, LAMBDA o : o # g.body[1])],
                      g.body[1], "YELLOW", ShieldParticles)]}
       ELSE {[returned |-> TRUE, g |-> x] : x \in game_over(g)}
  ELSE {[returned |-> FALSE, g |-> g]}

\* Lines 287-296: the Survival obstacle test.  Results are tagged with
\* returned = TRUE where update returns at once.
ObstacleHitStep(g, has_ghost) ==
  IF g.mode = "SURVIVAL" /\ ~has_ghost /\ g.body[1] \in Range(g.obstacles)
  THEN IF "SHIELD" \in DOMAIN g.active_powerups
       THEN {[returned |-> FALSE,
              g |-> create_particles(
                      [g EXCEPT !.active_powerups = DictDel(@, "SHIELD"),
                                !.obstacles = SelectSeq(@, LAMBDA o : o # g.body[1])],
                      g.body[1], "YELLOW", ShieldParticles)]}
       ELSE {[returned |-> TRUE, g |-> x] : x \in game_over(g)}
  ELSE {[returned |-> FALSE, g |-> g]}

\* Mutant of MoveStep: Shield absorbs the blocked move but is not deleted.
MoveStep_KeepsShield(g, has_ghost) ==
  LET r == SnakeMove(g.body, g.direction, g.grow_pending, has_ghost)
      g1 == [g EXCEPT !.body = r.body, !.grow_pending = r.grow_pending]
  IN IF ~r.ok
     THEN IF "SHIELD" \in DOMAIN g1.active_powerups
          THEN {[returned |-> FALSE,
                 g |-> create_particles(g1, g1.body[1], "YELLOW", ShieldParticles)]}
          ELSE {[returned |-> TRUE, g |-> x] : x \in game_over(g1)}
     ELSE {[returned |-> FALSE, g |-> g1]}

\* Mutant of MoveStep: update goes on after the game_over of a blocked move.
MoveStep_NoReturn(g, has_ghost) ==
  LET r == SnakeMove(g.body, g.direction, g.grow_pending, has_ghost)
      g1 == [g EXCEPT !.body = r.body, !.grow_pending = r.grow_pending]
  IN IF ~r.ok
     THEN IF "SHIELD" \in DOMAIN g1.active_powerups
          THEN {[returned |-> FALSE,
                 g |-> create_particles(
                         [g1 EXCEPT !.active_powerups = DictDel(@, "SHIELD")],
                         g1.body[1], "YELLOW", ShieldParticles)]}
          ELSE {[returned |-> FALSE, g |-> x] : x \in game_over(g1)}
     ELSE {[returned |-> FALSE, g |-> g1]}

\* Lines 276-285: the move and the Shield.
MoveStep(g, has_ghost) ==
  LET r == SnakeMove(g.body, g.direction, g.grow_pending, has_ghost)
      g1 == [g EXCEPT !.body = r.body, !.grow_pending = r.grow_pending]
  IN IF ~r.ok
     THEN IF "SHIELD" \in DOMAIN g1.active_powerups
          THEN {[returned |-> FALSE,
                 g |-> create_particles(
                         [g1 EXCEPT !.active_powerups = DictDel(@, "SHIELD")],
                         g1.body[1], "YELLOW", ShieldParticles)]}
          ELSE {[returned |-> TRUE, g |-> x] : x \in game_over(g1)}
     ELSE {[returned |-> FALSE, g |-> g1]}

\* Lines 273-311: the block run when the move counter reaches the cadence.
MoveBlock(g, draws) ==
  LET g0 == [g EXCEPT !.move_counter = 0]
      has_ghost == "GHOST" \in DOMAIN g0.active_powerups
      AfterMove(x) ==
        IF x.returned THEN {x} ELSE ObstacleHitStep(x.g, has_ghost)
      AfterHit(x) ==
        IF x.returned THEN {x}
        ELSE {[returned |-> FALSE, g |-> PickupStep(y)] : y \in FoodStep(x.g, draws)}
  IN Then(Then(MoveStep(g0, has_ghost), AfterMove), AfterHit)

\* Lines 313-328: the end of update.
TickTail(g, draws) ==
  Then(Then(PowerUpSpawnStep(g, draws), LAMBDA x : ObstacleSpawnStep(x, draws)),
       TimeAttackStep)

\* Game.update in a playing mode (lines 243-328), its draws landing on the
\* cells of draws.
update(g, draws) ==
  LET g1 == TimersStep(ParticlesStep(g))
      g2 == [g1 EXCEPT !.move_counter = @ + 1]
  IN IF g2.move_counter >= frames_per_move(g2)
     THEN Then(MoveBlock(g2, draws),
               LAMBDA x : IF x.returned THEN {x.g} ELSE TickTail(x.g, draws))
     ELSE TickTail(g2, draws)

\* The head update leaves (lines 248-285): where it was, or the cell of a
\* move that is due and not blocked.
UpdateHead(g) ==
  LET g1 == TimersStep(g)
      r == SnakeMove(g1.body, g1.direction, g1.grow_pending,
                     "GHOST" \in DOMAIN g1.active_powerups)
  IN IF g1.move_counter + 1 >= frames_per_move(g1) THEN r.body[1] ELSE g.body[1]

\* The first k far cells (FarCell) outside taken.
FarDraws(taken, k) ==
  {FarCell(j) : j \in {i \in 1..6 :
      /\ FarCell(i) \notin taken
      /\ Cardinality({m \in 1..(i - 1) : FarCell(m) \notin taken}) < k}}

\* The draws explored for a step that leaves the head at head, the field
\* holding the cells of taken, and that spawns up to due times: the cells
\* around the head, and as many far cells as those are short of due vacant
\* cells.
ExploredDraws(head, taken, due) ==
  LET vacant == Cardinality(NearCells(head) \ (taken \cup {head}))
  IN IF vacant < due
     THEN NearCells(head) \cup FarDraws(taken, due - vacant)
     ELSE NearCells(head)

\* The draws explored at a reset_game: one spawn, around the new head.
ResetDraws == ExploredDraws(SnakeResetBody[1], Range(SnakeResetBody), 1)

\* How many spawns the coming update can make at most: the food when the
\* head lands on it (line 304), a power-up when the spawn counter is due
\* (line 317), an obstacle in Survival (line 322).
SpawnsDue(g) ==
  (IF UpdateHead(g) = g.food_pos THEN 1 ELSE 0)
  + (IF g.powerup_spawn_counter + 1 >= FPS * PowerUpSpawnSeconds THEN 1 ELSE 0)
  + (IF g.mode = "SURVIVAL" THEN 1 ELSE 0)

\* The cells of the field that hold something.
Taken(g) ==
  Range(g.body) \cup {g.food_pos} \cup PowerUpCells(g) \cup Range(g.obstacles)

\* The draws explored at an update.
UpdateDraws(g) == ExploredDraws(UpdateHead(g), Taken(g), SpawnsDue(g))


(* ---------------- initial states --------------------------------------- *)

\* high_scores.json does not exist (or cannot be read).
NoFile == [exists |-> FALSE, table |-> EmptyDict]

\* Contents of high_scores.json at process start: no file, or a table
\* written by an earlier run (one that never finished a Survival game).
HighScoreFiles ==
  {NoFile,
   [exists |-> TRUE,
    table |-> [k \in {"classic", "time_attack"} |-> IF k = "classic" THEN 10 ELSE 20]]}

\* Game.__init__ (lines 144-153): the menu, a reset session, the loaded
\* table.
Constructed ==
  LET blank == [mode |-> "MENU", last_mode |-> "UNSET", body |-> <<>>,
                direction |-> "RIGHT", grow_pending |-> 0,
                active_powerups |-> EmptyDict, score |-> 0, move_counter |-> 0,
                powerups |-> <<>>, particles |-> <<>>, obstacles |-> <<>>,
                time_remaining |-> 0, powerup_spawn_counter |-> 0,
                food_pos |-> <<0, 0>>, high_scores |-> EmptyDict, file |-> [exists |-> FALSE, table |-> EmptyDict]]
  IN UNION {{[g EXCEPT !.high_scores = load_high_scores(f), !.file = f] :
                g \in reset_game(blank, ResetDraws)} :
              f \in HighScoreFiles}

\* A straight snake of n cells heading right with its head at h.
StraightBody(h, n) == [i \in 1..n |-> <<h[1] - (i - 1), h[2]>>]

\* The cell the mid-session states put the head on: two cells from the
\* right wall, in a row next to the start row; moves is the number of moves
\* made so far, which fixes the parity of x + y.
SeedHead(moves) ==
  LET start_x == GRID_WIDTH \div 2
      start_y == GRID_HEIGHT \div 2
      x == GRID_WIDTH - 2
  IN IF (x + start_y - 1) % 2 = (start_x + start_y + moves) % 2
     THEN <<x, start_y - 1>>
     ELSE <<x, start_y>>

\* A session in play, given by what differs from a reset session.
InPlay(m, head, n, act, sc, mc, pus, obs, tr, psc, f) ==
  {[mode |-> m, last_mode |-> "UNSET", body |-> StraightBody(head, n),
    direction |-> "RIGHT", grow_pending |-> 0, active_powerups |-> act,
    score |-> sc, move_counter |-> mc, powerups |-> pus, particles |-> <<>>,
    obstacles |-> obs, time_remaining |-> tr, powerup_spawn_counter |-> psc,
    food_pos |-> food, high_scores |-> load_high_scores(f), file |-> f] :
     food \in NearCells(head)
                \ (Range(StraightBody(head, n)) \cup Range(obs)
                     \cup {pus[i].pos : i \in 1..Len(pus)})}

\* States of the first session of a process one frame before the first
\* power-up spawn: FPS*10 - 1 = 599 updates were made, the snake (cadence 7
\* all along: 85 moves, 4 frames into the next) was steered to the right
\* wall without eating; the food still lies where reset_game put it.
BeforeFirstSpawn ==
  LET t == FPS * PowerUpSpawnSeconds - 1
      head == SeedHead(t \div 7)
  IN UNION {InPlay(m, head, 3, EmptyDict, 0, t % 7, <<>>, <<>>,
                   IF m = "TIME_ATTACK" THEN TimeAttackSeconds * FPS - t
                   ELSE TimeAttackSeconds * FPS,
                   t, f) : m \in PlayingModes, f \in HighScoreFiles \ {NoFile}}

\* States of the first session of a process, in Classic, one frame before
\* the third power-up spawn: 3 * FPS*10 - 1 = 1799 updates were made (257
\* moves at cadence 7, the next one 7 frames ahead), nothing was eaten, and
\* the power-ups spawned at frames 600 and 1200 lie unpicked next to the
\* head.
BeforeThirdSpawn ==
  LET t == 3 * FPS * PowerUpSpawnSeconds - 1
      head == SeedHead(t \div 7)
  IN UNION {InPlay("CLASSIC", head, 3, EmptyDict, 0, t % 7,
                   <<PowerUp(pt, <<head[1] + 1, head[2]>>),
                     PowerUp("MULTIPLIER", <<head[1], head[2] + 1>>)>>, <<>>,
                   TimeAttackSeconds * FPS, t % (FPS * PowerUpSpawnSeconds), NoFile) :
               pt \in PowerUpTypes}

\* States of a Time Attack session ExpiryLead frames before the clock runs
\* out: nothing eaten; the power-ups spawned at frames 600 to 2400 were
\* picked up, two of them SPEED_BOOSTs (each run of 300 boosted frames at
\* cadence 5 brings 60 moves instead of 43 and moves the move frames from 7k
\* to 7k + 1), so the moves fall on the frames 7k + 2; the power-up spawned
\* at frame 3000 lies between the head and the wall.  The power-up spawned
\* at frame 2400 either has expired, or was of the same type as the one on
\* the field (other than SPEED_BOOST) and was picked up on the move of frame
\* 7 * 486 + 2 = 3404 and is still active.
BeforeExpiry ==
  LET t == TimeAttackSeconds * FPS - ExpiryLead
      head == SeedHead((t - 2) \div 7 + 2 * (60 - 43))
      left == PowerUpDuration - (t - (7 * 486 + 2))
      Active(pt) == {EmptyDict} \cup (IF pt = "SPEED_BOOST" THEN {}
                                       ELSE {[k \in {pt} |-> left]})
  IN UNION {InPlay("TIME_ATTACK", head, 3, act, 0, PyMod(t - 2, 7),
                   <<PowerUp(pt, <<head[1] + 1, head[2]>>)>>, <<>>,
                   ExpiryLead, t % (FPS * PowerUpSpawnSeconds), NoFile) :
               <<pt, act>> \in {<<p, a>> \in PowerUpTypes \X ({EmptyDict} \cup
                                   {[k \in {q} |-> left] : q \in PowerUpTypes}) :
                                 a \in Active(p)}}

\* States of a Survival session in which two foods were eaten without
\* MULTIPLIER (length 5, hence one obstacle, which lies between the head and
\* the wall) and every power-up spawned so far was picked up:
\*  - after 900 updates (128 moves, move counter 4): the SHIELD spawned at
\*    frame 600 was picked up on the move of frame 798 (198 frames left) or
\*    of frame 602 (2 frames left);
\*  - after 1500 updates (214 moves, move counter 2): a SHIELD picked up on
\*    the move of frame 1400 and the GHOST spawned at frame 1200 picked up on
\*    the move of frame 1211 (11 frames left);
\*  - after 1500 updates: the SHIELD picked up on the move of frame 1211 (11
\*    frames left) and the SPEED_BOOST spawned at frame 1200 picked up on the
\*    move of frame 1246 (46 frames left); 178 moves at cadence 7 up to frame
\*    1246, then 50 at cadence 5 up to frame 1496 (move counter 4).
DeepSurvival ==
  LET period == FPS * PowerUpSpawnSeconds
      seed(t, moves, mc, act) ==
        InPlay("SURVIVAL", SeedHead(moves), 5, act, 2 * FoodPoints, mc, <<>>,
               << <<SeedHead(moves)[1] + 1, SeedHead(moves)[2]>> >>,
               TimeAttackSeconds * FPS, t % period, NoFile)
      t1 == period + 300
      t2 == 2 * period + 300
  IN seed(t1, t1 \div 7, t1 % 7, [k \in {"SHIELD"} |-> 198])
       \cup seed(t1, t1 \div 7, t1 % 7, [k \in {"SHIELD"} |-> 2])
       \cup seed(t2, t2 \div 7, t2 % 7,
                 [k \in {"GHOST", "SHIELD"} |-> IF k = "GHOST" THEN 11 ELSE 200])
       \cup seed(t2, 178 + 50, 4,
                 [k \in {"SHIELD", "SPEED_BOOST"} |-> IF k = "SHIELD" THEN 11 ELSE 46])

\* A state of a Survival session after 900 updates (128 moves, move
\* counter 4) in which seven foods were eaten without MULTIPLIER (length 10,
\* hence two obstacles, which lie in front of and below the head) and the
\* SHIELD spawned at frame 600 was picked up on the move of frame 798.
LongSurvival ==
  LET t == FPS * PowerUpSpawnSeconds + 300
      head == SeedHead(t \div 7)
  IN InPlay("SURVIVAL", head, 10, [k \in {"SHIELD"} |-> 198], 7 * FoodPoints,
            t % 7, <<>>,
            << <<head[1] + 1, head[2]>>, <<head[1], head[2] + 1>> >>,
            TimeAttackSeconds * FPS, t % (FPS * PowerUpSpawnSeconds), NoFile)

Init ==
  /\ \E g \in Constructed \cup BeforeFirstSpawn \cup BeforeThirdSpawn
                \cup BeforeExpiry \cup DeepSurvival \cup LongSurvival :
       /\ mode = g.mode
       /\ last_mode = g.last_mode
       /\ body = g.body
       /\ direction = g.direction
       /\ grow_pending = g.grow_pending
       /\ active_powerups = g.active_powerups
       /\ score = g.score
       /\ move_counter = g.move_counter
       /\ powerups = g.powerups
       /\ particles = g.particles
       /\ obstacles = g.obstacles
       /\ time_remaining = g.time_remaining
       /\ powerup_spawn_counter = g.powerup_spawn_counter
       /\ food_pos = g.food_pos
       /\ high_scores = g.high_scores
       /\ high_scores_file = g.file
  /\ budget = IF mode = "MENU" THEN 0 ELSE MaxTicks

(* ---------------- Game.handle_events (lines 199-237), one event -------- *)

\* K_1, K_2, K_3 in the menu (lines 205-214).
MenuSelect(m) ==
  /\ mode = "MENU"
  /\ \E g \in reset_game([Game EXCEPT !.mode = m],
                         ResetDraws) :
        Commit(g)
  /\ budget' = FreshTicks

\* K_SPACE on the game-over screen (lines 219-220).
BackToMenu ==
  /\ mode = "GAME_OVER"
  /\ Commit([Game EXCEPT !.mode = "MENU"])
  /\ UNCHANGED budget

\* Mutant of Restart: the new game is always a Classic game.
Restart_Classic ==
  /\ mode = "GAME_OVER"
  /\ \E g \in reset_game(Game, ResetDraws) :
        Commit([g EXCEPT !.mode = "CLASSIC"])
  /\ budget' = FreshTicks

\* K_r on the game-over screen (lines 221-223).
Restart ==
  /\ mode = "GAME_OVER"
  /\ \E g \in reset_game(Game, ResetDraws) :
        Commit([g EXCEPT !.mode = g.last_mode])
  /\ budget' = FreshTicks

\* K_ESCAPE in a game (lines 226-227).
Escape ==
  /\ mode \in PlayingModes
  /\ Commit([Game EXCEPT !.mode = "MENU"])
  /\ UNCHANGED budget

\* An arrow or WASD key in a game (lines 228-235).
Turn(d) ==
  /\ mode \in PlayingModes
  /\ Commit([Game EXCEPT !.direction = SetDirection(body, direction, d)])
  /\ UNCHANGED budget

\* The update call of one loop iteration (line 495): a no-op outside the
\* playing modes (lines 240-241).
Update ==
  IF mode \in PlayingModes
  THEN /\ budget > 0
       /\ \E draws \in {UpdateDraws(Game)} :
            \E g \in update(Game, draws) : Commit(g)
       /\ budget' = budget - 1
  ELSE UNCHANGED vars

Next ==
  \/ \E m \in PlayingModes : MenuSelect(m)
  \/ BackToMenu
  \/ Restart
  \/ Escape
  \/ \E d \in Directions : Turn(d)
  \/ Update

Spec == Init /\ [][Next]_vars


(* ======================== properties =================================== *)

\* The step is an update() call in a playing mode.
IsTick == mode \in PlayingModes /\ budget' = budget - 1
\* The step is a reset_game that enters a playing mode (menu choice, restart).
IsReset == mode \in {"MENU", "GAME_OVER"} /\ mode' \in PlayingModes

\* What the coming update() call finds once the timers have run
\* (lines 248-258): the power-ups still active, whether the move is due,
\* and the cell the move goes to.
ActiveAtMove == DOMAIN TimersStep(Game).active_powerups
MoveDue == move_counter + 1 >= frames_per_move(TimersStep(Game))
GhostAtMove == "GHOST" \in ActiveAtMove
ShieldAtMove == "SHIELD" \in ActiveAtMove
NewHead == MoveTarget(body, direction, GhostAtMove)
HitsWall == ~GhostAtMove /\ ~InGrid(NewHead)
HitsSelf == NewHead \in Range(Tail(body))
BlockedMove == MoveDue /\ (HitsWall \/ HitsSelf)
\* The Time Attack clock runs out on the coming update() call.
ClockExpires == mode = "TIME_ATTACK" /\ time_remaining - 1 <= 0
\* The table after the high-score check of a game-over in mode m with score sc.
Checked(hs, m, sc) ==
  IF sc > (IF Lower(m) \in DOMAIN hs THEN hs[Lower(m)] ELSE 0)
  THEN [k \in DOMAIN hs \cup {Lower(m)} |-> IF k = Lower(m) THEN sc ELSE hs[k]]
  ELSE hs
JustEmitted(color, cell) ==
  \E i \in 1..Len(particles) :
     /\ particles[i].color = color
     /\ particles[i].cell = cell
     /\ particles[i].life = ParticleLife

(* ---- C1 ---- *)
\* C1 as stated: on a tick whose move is blocked while Shield is active,
\* Shield leaves the active set and the mode at the end of the tick is
\* still the playing mode.
C1_AsStated ==
  [][IsTick /\ BlockedMove /\ ShieldAtMove
       => "SHIELD" \notin DOMAIN active_powerups' /\ mode' = mode]_vars

\* C1, amended: on a tick whose move is blocked while Shield is active,
\* Shield leaves the active set, the snake stays where it is, and the
\* blocked move itself does not end the session: the tick ends in GameOver
\* exactly when the Time Attack clock runs out on that tick or when, in
\* Survival with Ghost inactive, the head is resting on an obstacle cell;
\* otherwise the mode is unchanged.
C1_ShieldAbsorbsBlockedMove ==
  [][IsTick /\ BlockedMove /\ ShieldAtMove
       => /\ "SHIELD" \notin DOMAIN active_powerups'
          /\ body' = body
          /\ JustEmitted("YELLOW", body[1])'
          /\ IF \/ ClockExpires
                \/ mode = "SURVIVAL" /\ ~GhostAtMove /\ body[1] \in Range(obstacles)
             THEN mode' = "GAME_OVER"
             ELSE mode' = mode]_vars

\* A Classic or Time Attack game goes on right after Shield absorbed a
\* blocked move (the yellow particles of this tick are at the head).
C1_Witness ==
  /\ mode \in {"CLASSIC", "TIME_ATTACK"}
  /\ JustEmitted("YELLOW", body[1])
  /\ "SHIELD" \notin DOMAIN active_powerups

(* ---- C2 ---- *)
\* set_direction(d) takes effect (seen from a current direction other than d).
Accepts(d) == SetDirection(body, IF d = "UP" THEN "DOWN" ELSE "UP", d) = d
\* A move in direction d would put the head on the second segment.
OntoNeck(d) ==
  /\ Len(body) > 1
  /\ MoveTarget(body, d, "GHOST" \in DOMAIN active_powerups) = body[2]

\* C2: in every state of a playing session set_direction(d) is rejected
\* if and only if a move in direction d would place the head on body[1]
\* (the second segment), also after a Ghost wrap-around.
C2_RejectedIffOntoNeck ==
  mode \in PlayingModes => \A d \in Directions : Accepts(d) <=> ~OntoNeck(d)

(* ---- C3 ---- *)
\* C3: every cell of the body is inside the grid in every state; a
\* non-Ghost move whose new head would leave the grid leaves the body
\* unchanged, and a successful Ghost move puts the head on the new
\* coordinates taken modulo the grid dimensions.
C3_BodyInGrid ==
  /\ [](\A i \in 1..Len(body) : InGrid(body[i]))
  /\ [][IsTick /\ MoveDue
          => /\ (~GhostAtMove /\ HitsWall => body' = body)
             /\ (GhostAtMove /\ body' # body
                   => body'[1] = <<(body[1][1] + DirValue(direction)[1] + GRID_WIDTH) % GRID_WIDTH,
                                   (body[1][2] + DirValue(direction)[2] + GRID_HEIGHT) % GRID_HEIGHT>>)]_vars

\* A Ghost move has wrapped around: head and second segment are on
\* opposite edges of the grid.
C3_Witness ==
  /\ mode \in PlayingModes
  /\ Len(body) > 1
  /\ body[1][1] = 0
  /\ body[2][1] = GRID_WIDTH - 1

(* ---- C4 ---- *)
\* C4: on a tick whose move is made with Ghost active, the move is
\* blocked if and only if the wrapped new head lies in body[1:]; the
\* Survival obstacle test is skipped (Shield and obstacles are left alone by
\* a successful move, even onto an obstacle); and the tick ends in GameOver
\* only by a self-collision without Shield or by Time Attack expiry.
C4_GhostMove ==
  [][IsTick /\ MoveDue /\ GhostAtMove
       => /\ (body' = body) <=> HitsSelf
          /\ ~HitsSelf => /\ body'[1] = NewHead
                          /\ (ShieldAtMove => "SHIELD" \in DOMAIN active_powerups')
                          /\ \A i \in 1..Len(obstacles) : obstacles'[i] = obstacles[i]
          /\ mode' = "GAME_OVER" => (HitsSelf /\ ~ShieldAtMove) \/ ClockExpires]_vars

\* In Survival the head has moved onto an obstacle under Ghost and the
\* game goes on.
C4_Witness ==
  /\ mode = "SURVIVAL"
  /\ "GHOST" \in DOMAIN active_powerups
  /\ body[1] \in Range(obstacles)

(* ---- C5 ---- *)
\* C5: on a tick whose non-Ghost move would leave the grid while Shield is
\* not active, the session goes to GameOver, last_mode is the mode played,
\* the high-score check is made, and no later step of the tick runs: no
\* food pickup, no power-up pickup or spawn-counter increment, no obstacle
\* spawn, no Time Attack decrement.
C5_WallWithoutShield ==
  [][IsTick /\ MoveDue /\ HitsWall /\ ~ShieldAtMove
       => /\ mode' = "GAME_OVER"
          /\ last_mode' = mode
          /\ high_scores' = Checked(high_scores, mode, score)
          /\ body' = body
          /\ score' = score /\ grow_pending' = grow_pending /\ food_pos' = food_pos
          /\ powerups' = powerups
          /\ powerup_spawn_counter' = powerup_spawn_counter
          /\ obstacles' = obstacles
          /\ time_remaining' = time_remaining]_vars

\* A Classic game has ended with the head at the right wall heading right.
C5_Witness ==
  /\ mode = "GAME_OVER"
  /\ last_mode = "CLASSIC"
  /\ body[1][1] = GRID_WIDTH - 1
  /\ direction = "RIGHT"
  /\ move_counter = 0

(* ---- C6 ---- *)
\* C6: the high-score table changes only on a step that ends a game, and
\* on such a step the entry of the mode just played becomes the score if
\* and only if the score is strictly greater than the stored value (a
\* missing entry counting as 0), all other entries staying as they are;
\* escaping to the menu, restarting and every other step leave the table
\* unchanged.
C6_HighScoreUpdate ==
  [][/\ (IsTick /\ mode' = "GAME_OVER"
           => high_scores' = Checked(high_scores, mode, score'))
     /\ (high_scores' # high_scores
           => /\ IsTick /\ mode' = "GAME_OVER"
              /\ score' > (IF Lower(mode) \in DOMAIN high_scores
                           THEN high_scores[Lower(mode)] ELSE 0)
              /\ high_scores'[Lower(mode)] = score'
              /\ \A k \in DOMAIN high_scores \ {Lower(mode)} :
                   k \in DOMAIN high_scores' /\ high_scores'[k] = high_scores[k])]_vars

\* A Survival game has ended with a new best although the table loaded
\* at start had no Survival entry above 0.
C6_Witness ==
  /\ mode = "GAME_OVER"
  /\ last_mode = "SURVIVAL"
  /\ score > 0
  /\ "survival" \in DOMAIN high_scores
  /\ high_scores["survival"] = score
  /\ "classic" \in DOMAIN high_scores

(* ---- C7 ---- *)
\* C7: entering Time Attack sets the clock to 60*FPS; every Time Attack
\* tick either is cut short by a fatal collision (GameOver, clock
\* unchanged) or decreases the clock by exactly 1, ending in GameOver with
\* the high-score check exactly when the clock reaches 0, whatever the
\* snake does on that tick; so a running Time Attack game always has
\* between 1 and 60*FPS ticks left, and the tick that finds the clock at k
\* is at most the k-th before GameOver.  No tick of Classic or Survival,
\* and no key other than a reset, changes the clock.
C7_Countdown ==
  /\ [](mode = "TIME_ATTACK" => time_remaining >= 1 /\ time_remaining <= TimeAttackSeconds * FPS)
  /\ [][/\ (IsReset => time_remaining' = TimeAttackSeconds * FPS)
        /\ (IsTick /\ mode = "TIME_ATTACK"
              => \/ /\ BlockedMove /\ ~ShieldAtMove
                    /\ mode' = "GAME_OVER" /\ time_remaining' = time_remaining
                 \/ /\ time_remaining' = time_remaining - 1
                    /\ (mode' = "GAME_OVER") <=> (time_remaining' = 0)
                    /\ (mode' = "GAME_OVER"
                          => /\ last_mode' = "TIME_ATTACK"
                             /\ high_scores' = Checked(high_scores, mode, score')))
        /\ (~IsReset /\ ~(IsTick /\ mode = "TIME_ATTACK")
              => time_remaining' = time_remaining)]_vars

\* A Time Attack game has ended because the clock ran out while the snake
\* was free to move on.
C7_Witness ==
  /\ mode = "GAME_OVER"
  /\ last_mode = "TIME_ATTACK"
  /\ time_remaining = 0
  /\ move_counter > 0

(* ---- C8 ---- *)
\* C8: in every state of a playing session the food cell is neither a cell
\* of the snake's body nor an obstacle cell.
C8_FoodOffSnakeAndObstacles ==
  mode \in PlayingModes
    => food_pos \notin Range(body) /\ food_pos \notin Range(obstacles)

\* In Survival, with an obstacle on the field, a food has just been eaten
\* and respawned (the red particles of this tick are at the head).
C8_Witness ==
  /\ mode = "SURVIVAL"
  /\ obstacles # <<>>
  /\ JustEmitted("RED", body[1])
  /\ Len(body) > 5

(* ---- C9 ---- *)
\* C9: a successful move puts exactly one new head cell in front of the
\* old body; with grow_pending = 0 the last cell is dropped (length
\* unchanged), with grow_pending > 0 the whole old body is kept (length + 1)
\* and grow_pending loses 1 (before a food under the new head adds 1).  A
\* blocked move changes neither the body nor grow_pending nor the direction.
C9_MoveAndGrowth ==
  [][IsTick /\ MoveDue
       => IF HitsWall \/ HitsSelf
          THEN body' = body /\ grow_pending' = grow_pending /\ direction' = direction
          ELSE /\ body'[1] = NewHead
               /\ IF grow_pending > 0
                  THEN /\ Len(body') = Len(body) + 1
                       /\ \A i \in 1..Len(body) : body'[i + 1] = body[i]
                       /\ grow_pending' = grow_pending - 1 + (IF score' # score THEN 1 ELSE 0)
                  ELSE /\ Len(body') = Len(body)
                       /\ \A i \in 1..(Len(body) - 1) : body'[i + 1] = body[i]
                       /\ grow_pending' = (IF score' # score THEN 1 ELSE 0)]_vars

\* The snake has grown to 4 cells (no initial state has a snake of 4).
C9_Witness ==
  /\ mode \in PlayingModes
  /\ Len(body) = 4
  /\ grow_pending = 0

(* ---- C10 ---- *)
\* The coming update() call moves the head onto the food and goes on to the
\* food test (in Survival a non-Ghost head on an obstacle needs Shield).
EatsFood ==
  /\ MoveDue /\ ~HitsWall /\ ~HitsSelf
  /\ NewHead = food_pos
  /\ ~(mode = "SURVIVAL" /\ ~GhostAtMove /\ NewHead \in Range(obstacles)
         /\ ~ShieldAtMove)

\* C10: on a tick whose move puts the head on the food, the score grows
\* by exactly 20 if ScoreMultiplier is active at the move and by exactly 10
\* otherwise, grow_pending ends 1 above its value after the move, and the
\* food goes to a cell that is neither on the snake nor on an obstacle; no
\* other step of a session changes the score (reset_game sets it to 0).
C10_FoodScore ==
  [][/\ (IsTick /\ EatsFood
           => /\ score' = score + (IF "MULTIPLIER" \in ActiveAtMove THEN 20 ELSE 10)
              /\ grow_pending' = (IF grow_pending > 0 THEN grow_pending - 1 ELSE 0) + 1
              /\ food_pos' # food_pos
              /\ food_pos' \notin Range(body') /\ food_pos' \notin Range(obstacles'))
     /\ (score' # score
           => \/ IsTick /\ EatsFood /\ score' > score
              \/ IsReset /\ score' = 0)]_vars

\* The only food eaten in this session counted double.
C10_Witness ==
  /\ mode \in PlayingModes
  /\ score = 2 * FoodPoints
  /\ Len(body) + grow_pending = 4

(* ---- C11 ---- *)
\* The obstacles the end of the coming update() call finds: the old ones,
\* less the one under the non-Ghost head when the move block has run (the
\* tick goes on only if Shield paid for that hit).
ObstaclesAtSpawn ==
  IF MoveDue /\ ~GhostAtMove /\ body'[1] \in Range(obstacles)
  THEN SelectSeq(obstacles, LAMBDA o : o # body'[1])
  ELSE obstacles

\* C11: a Survival tick that does not end in GameOver appends exactly one
\* obstacle, on a cell free of obstacles, when the snake's length at the end
\* of the tick is a positive multiple of 5 and the obstacles number fewer
\* than length \div 5, and appends none otherwise; in Classic and Time
\* Attack the obstacle list is always empty.
C11_ObstacleSpawn ==
  /\ [](mode \in {"CLASSIC", "TIME_ATTACK"} => obstacles = <<>>)
  /\ [][IsTick /\ mode = "SURVIVAL" /\ mode' # "GAME_OVER"
          => IF /\ Len(body') % 5 = 0 /\ Len(body') > 0
                /\ Len(ObstaclesAtSpawn) < Len(body') \div 5
             THEN /\ Len(obstacles') = Len(ObstaclesAtSpawn) + 1
                  /\ SubSeq(obstacles', 1, Len(ObstaclesAtSpawn)) = ObstaclesAtSpawn
                  /\ obstacles'[Len(obstacles')] \notin Range(ObstaclesAtSpawn)
             ELSE obstacles' = ObstaclesAtSpawn]_vars

\* In Survival, Shield has just removed the obstacle the head ran onto (in
\* the last column) and, the snake being 5 long, another obstacle has been
\* spawned on the same tick.
C11_Witness ==
  /\ mode = "SURVIVAL"
  /\ Len(body) = 5
  /\ body[1][1] = GRID_WIDTH - 1 /\ body[2][1] = GRID_WIDTH - 2
  /\ JustEmitted("YELLOW", body[1])
  /\ Len(obstacles) = 1
  /\ obstacles[1] # body[1]

(* ---- C12 ---- *)
\* The coming update() call moves the non-Ghost head onto an obstacle
\* (Survival).
ObstacleHit ==
  /\ mode = "SURVIVAL" /\ MoveDue /\ ~GhostAtMove
  /\ ~HitsWall /\ ~HitsSelf
  /\ NewHead \in Range(obstacles)

\* C12: a tick that uses Shield (blocked move or obstacle hit) leaves
\* Shield out of the active power-ups; Shield comes back into the active
\* power-ups only on a tick whose move puts the head on a Shield power-up of
\* the field; and a blocked move or obstacle hit met while Shield is absent
\* ends the session in GameOver.
C12_ShieldSingleUse ==
  [][/\ (IsTick /\ ShieldAtMove /\ (BlockedMove \/ ObstacleHit)
           => "SHIELD" \notin DOMAIN active_powerups')
     /\ ("SHIELD" \notin DOMAIN active_powerups /\ "SHIELD" \in DOMAIN active_powerups'
           => /\ IsTick /\ MoveDue /\ ~BlockedMove
              /\ body'[1] = NewHead
              /\ \E i \in 1..Len(powerups) :
                    powerups[i].type = "SHIELD" /\ powerups[i].pos = NewHead
              /\ active_powerups'["SHIELD"] = PowerUpDuration)
     /\ (IsTick /\ ~ShieldAtMove /\ (BlockedMove \/ ObstacleHit)
           => mode' = "GAME_OVER")]_vars

\* A Survival game in which Shield paid for an obstacle hit (its yellow
\* particles are still in the air) has ended at the wall on a later tick.
C12_Witness ==
  /\ mode = "GAME_OVER"
  /\ last_mode = "SURVIVAL"
  /\ "SHIELD" \notin DOMAIN active_powerups
  /\ obstacles # <<>>
  /\ body[1][1] = GRID_WIDTH - 1
  /\ \E i \in 1..Len(particles) :
        /\ particles[i].color = "YELLOW"
        /\ particles[i].cell = body[1]
        /\ particles[i].life < ParticleLife

(* ---- C13 ---- *)
\* Where the head is when the obstacle test of the coming update() call runs.
HeadAfterMove == IF HitsWall \/ HitsSelf THEN body[1] ELSE NewHead

\* The coming update() call ends the game: a blocked move without Shield, a
\* non-Ghost head on an obstacle in Survival with no Shield left for it, or
\* the Time Attack clock running out.
FatalTick ==
  \/ BlockedMove /\ ~ShieldAtMove
  \/ /\ mode = "SURVIVAL" /\ MoveDue /\ ~GhostAtMove
     /\ HeadAfterMove \in Range(obstacles)
     /\ (~ShieldAtMove \/ BlockedMove)
  \/ ClockExpires

\* C13: the mode changes only from Menu to a playing mode, from a playing
\* mode to GameOver (on a tick, and exactly on the ticks with a blocked move
\* without Shield, a Survival obstacle hit without Shield or Ghost, or Time
\* Attack expiry), from a playing mode to Menu (escape, not a tick), from
\* GameOver to Menu, and from GameOver to the mode just played; and nothing
\* of the session changes while the mode stays Menu or stays GameOver.
C13_ModeTransitions ==
  [][/\ (mode' # mode
           => \/ mode = "MENU" /\ mode' \in PlayingModes
              \/ /\ mode \in PlayingModes /\ mode' = "GAME_OVER"
                 /\ IsTick /\ FatalTick /\ last_mode' = mode
              \/ /\ mode \in PlayingModes /\ mode' = "MENU" /\ ~IsTick
                 /\ body' = body /\ score' = score /\ last_mode' = last_mode
              \/ mode = "GAME_OVER" /\ mode' = "MENU" /\ last_mode' = last_mode
              \/ mode = "GAME_OVER" /\ mode' = last_mode /\ mode' \in PlayingModes)
     /\ (IsTick => ((mode' = "GAME_OVER") <=> FatalTick))
     /\ (mode \in {"MENU", "GAME_OVER"} /\ mode' = mode => UNCHANGED gvars)]_vars

\* A Time Attack game was lost and the same mode is being played again from
\* a fresh session.
C13_Witness ==
  /\ mode = "TIME_ATTACK"
  /\ last_mode = "TIME_ATTACK"
  /\ score = 0
  /\ time_remaining = TimeAttackSeconds * FPS

(* ---- C14 ---- *)
\* C14: every step that enters a playing mode from Menu or GameOver leaves
\* a fresh session: the snake of Snake.reset (3 cells at the grid centre,
\* heading right, grow_pending 0, no active power-ups), score 0, both
\* counters 0, no power-ups, particles or obstacles on the field, the full
\* Time Attack countdown and a food cell in the grid off the snake; the
\* high-score table and its file are as before.
C14_FreshSession ==
  [][IsReset
       => /\ body' = << <<GRID_WIDTH \div 2, GRID_HEIGHT \div 2>>,
                        <<GRID_WIDTH \div 2 - 1, GRID_HEIGHT \div 2>>,
                        <<GRID_WIDTH \div 2 - 2, GRID_HEIGHT \div 2>> >>
          /\ direction' = "RIGHT"
          /\ grow_pending' = 0
          /\ active_powerups' = EmptyDict
          /\ score' = 0
          /\ move_counter' = 0
          /\ powerup_spawn_counter' = 0
          /\ powerups' = <<>>
          /\ particles' = <<>>
          /\ obstacles' = <<>>
          /\ time_remaining' = TimeAttackSeconds * FPS
          /\ InGrid(food_pos')
          /\ food_pos' \notin Range(body')
          /\ high_scores' = high_scores
          /\ high_scores_file' = high_scores_file]_vars

\* A fresh session right after a Survival game that was lost with obstacles
\* on the field and a score that went into the table.
C14_Witness ==
  /\ mode \in PlayingModes
  /\ last_mode = "SURVIVAL"
  /\ "survival" \in DOMAIN high_scores
  /\ high_scores["survival"] = 2 * FoodPoints
  /\ score = 0
  /\ move_counter = 0
  /\ powerup_spawn_counter = 0

(* ---- C15 ---- *)
\* effective_speed of the coming update() call, in hundredths of a move per
\* second: 8, times 1.5 under SpeedBoost, plus 0.05 per cell in Classic.
EffectiveSpeed100 ==
  (IF "SPEED_BOOST" \in ActiveAtMove THEN 1200 ELSE 800)
    + (IF mode = "CLASSIC" THEN 5 * Len(body) ELSE 0)

\* max(1, round(FPS / effective_speed)), with round() rounding a half to
\* the even neighbour.
RoundedCadence ==
  LET n == 2 * FPS * 100
      d == 2 * EffectiveSpeed100
      down == n \div d
      rest == n % d
      r == IF 2 * rest > d THEN down + 1
           ELSE IF 2 * rest < d THEN down
           ELSE IF down % 2 = 0 THEN down ELSE down + 1
  IN IF r >= 1 THEN r ELSE 1

\* max(1, FPS / effective_speed cut to its integer part).
TruncatedCadence ==
  LET t == (FPS * 100) \div EffectiveSpeed100
  IN IF t >= 1 THEN t ELSE 1

\* C15 as stated: on every tick the frame counter, once incremented, is
\* compared with max(1, round(FPS / effective_speed)); when it has reached
\* that value the snake attempts a move and the counter goes to 0, and
\* otherwise the counter keeps its incremented value and the snake stays.
C15_AsStated ==
  [][IsTick
       => IF move_counter + 1 >= RoundedCadence
          THEN move_counter' = 0
          ELSE move_counter' = move_counter + 1 /\ body' = body]_vars

\* C15, amended: the same with the quotient cut to its integer part
\* instead of rounded (60/8 = 7.5 gives 7): on the ticks where the
\* incremented counter has reached max(1, int(FPS / effective_speed)) the
\* counter goes to 0 and the snake attempts a move (it advances unless the
\* move is blocked); on the other ticks the counter keeps its incremented
\* value and the snake stays.
C15_TruncatedCadence ==
  [][IsTick
       => IF move_counter + 1 >= TruncatedCadence
          THEN /\ move_counter' = 0
               /\ (body' = body) <=> (HitsWall \/ HitsSelf)
          ELSE /\ move_counter' = move_counter + 1
               /\ body' = body]_vars

\* A fresh Time Attack snake, unboosted, has made its first move on the
\* 7th tick of the session.
C15_Witness ==
  /\ mode = "TIME_ATTACK"
  /\ time_remaining = TimeAttackSeconds * FPS - 7
  /\ move_counter = 0
  /\ body[1] = <<GRID_WIDTH \div 2 + 1, GRID_HEIGHT \div 2>>

(* ---- C16 ---- *)
\* C16: in every reachable state the food cell, the cells of the power-ups
\* on the field and the obstacle cells are pairwise distinct.
C16_FieldEntitiesDistinct ==
  /\ \A i \in 1..Len(powerups) : powerups[i].pos # food_pos
  /\ \A i \in 1..Len(obstacles) : obstacles[i] # food_pos
  /\ \A i, j \in 1..Len(powerups) : i # j => powerups[i].pos # powerups[j].pos
  /\ \A i, j \in 1..Len(obstacles) : i # j => obstacles[i] # obstacles[j]
  /\ \A i \in 1..Len(powerups) : \A j \in 1..Len(obstacles) :
        powerups[i].pos # obstacles[j]

(* ---- C17 ---- *)
\* The active power-ups with one frame taken off each, less those that
\* have none left.
TimersAfterDecrement ==
  [t \in {u \in DOMAIN active_powerups : active_powerups[u] - 1 > 0}
     |-> active_powerups[t] - 1]

\* The coming update() call returns from inside the move block.
EarlyReturn ==
  \/ BlockedMove /\ ~ShieldAtMove
  \/ /\ mode = "SURVIVAL" /\ MoveDue /\ ~GhostAtMove
     /\ HeadAfterMove \in Range(obstacles)
     /\ (~ShieldAtMove \/ BlockedMove)

\* The coming update() call picks up a power-up of type t.
PicksUp(t) ==
  /\ MoveDue /\ ~EarlyReturn
  /\ \E i \in 1..Len(powerups) :
        powerups[i].type = t /\ powerups[i].pos = HeadAfterMove

\* C17: the active power-ups hold one count per power-up type, each
\* between 1 and 300, in every state.  On every tick each count goes down by
\* 1 and an entry whose count reaches 0 is removed, before the move is
\* resolved: the power-ups in effect for the move are those left after the
\* decrement, so Shield on its last frame does not save a blocked move.  At
\* the end of the tick a type picked up on it has the full 300, whether or
\* not it was active before; Shield used on it is gone; every other entry has
\* its decremented count.
C17_PowerUpTimers ==
  /\ [](/\ DOMAIN active_powerups \subseteq PowerUpTypes
        /\ \A t \in DOMAIN active_powerups :
              active_powerups[t] >= 1 /\ active_powerups[t] <= PowerUpDuration)
  /\ [][IsTick
          => /\ ActiveAtMove = DOMAIN TimersAfterDecrement
             /\ ((DictGet(active_powerups, "SHIELD", 0) = 1 /\ BlockedMove)
                   => mode' = "GAME_OVER")
             /\ \A t \in PowerUpTypes :
                  IF PicksUp(t)
                  THEN /\ t \in DOMAIN active_powerups'
                       /\ active_powerups'[t] = PowerUpDuration
                  ELSE IF t = "SHIELD" /\ ShieldAtMove /\ (BlockedMove \/ ObstacleHit)
                  THEN t \notin DOMAIN active_powerups'
                  ELSE IF t \in DOMAIN TimersAfterDecrement
                  THEN /\ t \in DOMAIN active_powerups'
                       /\ active_powerups'[t] = active_powerups[t] - 1
                  ELSE t \notin DOMAIN active_powerups']_vars

\* In Survival under SpeedBoost, Shield is on its last frame and the snake
\* moves on the next tick.
C17_Witness ==
  /\ mode = "SURVIVAL"
  /\ "SHIELD" \in DOMAIN active_powerups
  /\ active_powerups["SHIELD"] = 1
  /\ "SPEED_BOOST" \in DOMAIN active_powerups
  /\ move_counter = 4

(* ---- C18 ---- *)
\* The power-ups the field holds once the coming update() call has made
\* its pickups: all of them, less the one under the head after a move.
PowerUpsAfterPickup ==
  IF MoveDue /\ ~EarlyReturn
  THEN SelectSeq(powerups, LAMBDA p : p.pos # HeadAfterMove)
  ELSE powerups

\* C18: the field never holds more than 2 power-ups.  A tick that does not
\* return early counts the spawn counter up by 1; when it reaches FPS*10 it
\* goes back to 0 and one power-up is appended, on a new cell, if fewer than
\* 2 are on the field after this tick's pickups, and none if there are 2
\* already; on all other ticks none is appended.  Apart from that, a
\* power-up leaves the field only when the head lands on it or the session
\* is reset, and it never changes cell.
C18_PowerUpField ==
  /\ [](Len(powerups) <= 2)
  /\ [][/\ (IsTick /\ EarlyReturn
              => powerups' = powerups /\ powerup_spawn_counter' = powerup_spawn_counter)
        /\ (IsTick /\ ~EarlyReturn
              => IF powerup_spawn_counter + 1 >= FPS * 10
                 THEN /\ powerup_spawn_counter' = 0
                      /\ IF Len(PowerUpsAfterPickup) < 2
                         THEN /\ Len(powerups') = Len(PowerUpsAfterPickup) + 1
                              /\ SubSeq(powerups', 1, Len(PowerUpsAfterPickup))
                                   = PowerUpsAfterPickup
                              /\ \A i \in 1..Len(PowerUpsAfterPickup) :
                                    powerups'[i].pos # powerups'[Len(powerups')].pos
                         ELSE powerups' = PowerUpsAfterPickup
                 ELSE /\ powerup_spawn_counter' = powerup_spawn_counter + 1
                      /\ powerups' = PowerUpsAfterPickup)
        /\ (IsReset => powerups' = <<>> /\ powerup_spawn_counter' = 0)
        /\ (~IsTick /\ ~IsReset
              => powerups' = powerups /\ powerup_spawn_counter' = powerup_spawn_counter)]_vars

\* A game goes on with 2 power-ups on the field and the spawn counter just
\* reset: the spawn that was due added nothing.
C18_Witness ==
  /\ mode \in PlayingModes
  /\ Len(powerups) = 2
  /\ powerup_spawn_counter = 0

(* ---- C19 ---- *)
\* The obstacles left once the one under NewHead is taken away.
ObstaclesAfterHit == SelectSeq(obstacles, LAMBDA o : o # NewHead)

\* C19: outside a reset, the obstacles of a state are still there, at their
\* cells and in their order, after every step (a tick may append a new one),
\* with one exception: a tick that moves the non-Ghost head onto an obstacle
\* while Shield is active deletes Shield and removes that obstacle and no
\* other.  The same hit without Shield ends the session in GameOver with the
\* obstacles untouched.
C19_ObstaclePersistence ==
  [][IF IsTick /\ ObstacleHit
     THEN IF ShieldAtMove
          THEN /\ "SHIELD" \notin DOMAIN active_powerups'
               /\ Len(ObstaclesAfterHit) = Len(obstacles) - 1
               /\ Len(obstacles') >= Len(ObstaclesAfterHit)
               /\ SubSeq(obstacles', 1, Len(ObstaclesAfterHit)) = ObstaclesAfterHit
               /\ mode' = "SURVIVAL"
          ELSE /\ mode' = "GAME_OVER"
               /\ obstacles' = obstacles
     ELSE ~IsReset =>
            /\ Len(obstacles') >= Len(obstacles)
            /\ SubSeq(obstacles', 1, Len(obstacles)) = obstacles]_vars

\* A Survival session with a snake of length 10 in which Shield has just
\* absorbed the hit on the obstacle in front of the head (yellow particles at
\* the head, on a cell that is free of obstacles now), while the older
\* obstacle one row below the former head is still the first of the list.
C19_Witness ==
  /\ mode = "SURVIVAL"
  /\ Len(body) = 10
  /\ "SHIELD" \notin DOMAIN active_powerups
  /\ body[1] \notin Range(obstacles)
  /\ Len(obstacles) >= 1
  /\ obstacles[1] = <<body[1][1] - 1, body[1][2] + 1>>
  /\ \E i \in 1..Len(particles) :
        /\ particles[i].color = "YELLOW"
        /\ particles[i].cell = body[1]

(* ---- C20 ---- *)
\* C20: in every reachable state no two positions of the body hold the same
\* cell, and a tick whose move is aimed at a cell of the body (Ghost
\* wrap-around applied) leaves the body as it was.
C20_BodyDistinct ==
  /\ [](\A i, j \in 1..Len(body) : i # j => body[i] # body[j])
  /\ [][IsTick /\ MoveDue /\ NewHead \in Range(body) => body' = body]_vars

\* A running session whose snake has grown and still faces one of its own
\* cells right after Shield absorbed the move onto it (yellow particles at
\* the head, Shield gone).
C20_Witness ==
  /\ mode \in PlayingModes
  /\ Len(body) > 3
  /\ "SHIELD" \notin DOMAIN active_powerups
  /\ <<body[1][1] + DirValue(direction)[1], body[1][2] + DirValue(direction)[2]>>
        \in Range(Tail(body))
  /\ \E i \in 1..Len(particles) :
        /\ particles[i].color = "YELLOW"
        /\ particles[i].cell = body[1]
        /\ particles[i].life = ParticleLife

(* ---- C21 ---- *)
\* The cell in front of the head is closed to the snake: it lies outside
\* the grid while Ghost is not active, or it is (wrapped around, where it
\* lies outside) a cell of the body behind the head.
FacesBlock ==
  \/ /\ "GHOST" \notin DOMAIN active_powerups
     /\ ~InGrid(MoveTarget(body, direction, FALSE))
  \/ MoveTarget(body, direction, TRUE) \in Range(Tail(body))

\* A running session without Shield whose snake faces a closed cell.
Stuck ==
  /\ mode \in PlayingModes
  /\ "SHIELD" \notin DOMAIN active_powerups
  /\ FacesBlock

\* C21: a tick whose blocked move is absorbed by Shield leaves body,
\* direction and grow_pending as they were, and ends either in GameOver or
\* in a running session without Shield that still faces the closed cell.
\* From such a session, as long as the direction stays the same and the
\* session is not left for the menu, a tick without a move attempt keeps the
\* snake where it is, still facing the closed cell without Shield (unless
\* the Time Attack clock ends the game), and the tick with the next move
\* attempt ends in GameOver.
C21_AbsorbedThenGameOver ==
  [][/\ (IsTick /\ BlockedMove /\ ShieldAtMove
           => /\ body' = body
              /\ direction' = direction
              /\ grow_pending' = grow_pending
              /\ (mode' = "GAME_OVER" \/ Stuck'))
     /\ ((Stuck /\ direction' = direction /\ mode' # "MENU")
           => IF IsTick /\ (MoveDue \/ ClockExpires)
              THEN /\ mode' = "GAME_OVER"
                   /\ body' = body
              ELSE /\ Stuck'
                   /\ body' = body
                   /\ grow_pending' = grow_pending)]_vars

\* A Classic game that ended at the cell where, at most one move interval
\* earlier, Shield had absorbed a blocked move (its batch of yellow
\* particles is at the head and has aged by up to 7 frames): the repeated
\* attempt in the same direction found no Shield.
C21_Witness ==
  /\ mode = "GAME_OVER"
  /\ last_mode = "CLASSIC"
  /\ "SHIELD" \notin DOMAIN active_powerups
  /\ FacesBlock
  /\ \E i \in 1..Len(particles) :
        /\ particles[i].color = "YELLOW"
        /\ particles[i].count = ShieldParticles
        /\ particles[i].cell = body[1]
        /\ particles[i].life < ParticleLife
        /\ particles[i].life >= ParticleLife - 7

=============================================================================
